---- MODULE Spec2Model ----
(***************************************************************************)
(* Galois field library (sq8vps/galois-field): the binary field GF2        *)
(* (gf.h, second half), the prime field GFn (gfn.cpp) and the older prime  *)
(* field GF (gf.h, first half).  Each class builds an exponent table and a *)
(* logarithm table in its constructor and answers add/sub/mul/div/pow/inv  *)
(* from them.  The constructors are modelled loop iteration by loop        *)
(* iteration, the operations as one step each.                             *)
(***************************************************************************)
EXTENDS Integers, FiniteSets, Sequences, TLC

VARIABLES
    kind,   \* the class of the instance: "none", "GF2", "GFn", "GF"
    p,      \* the constructor's argument (GFn, GF)
    pc,     \* "start", "fill", "mirror", "ready", "rejected"
    len,    \* GFn::len / GF::len (GF2 has no such member: stays 0)
    gen,    \* local gen of GFn::GFn
    exp,    \* the exponent table, index -> value or Uninit
    log,    \* the logarithm table, index -> value or Uninit
    i,      \* the loop counter of the constructor
    x,      \* the running value x of the constructor
    op,     \* the last operation called: name, arguments, result, table reads
    oob     \* out-of-range table accesses made by the constructor

vars == <<kind, p, pc, len, gen, exp, log, i, x, op, oob>>

----------------------------------------------------------------------------
(* Bounds of the model *)

\* the largest characteristic handed to GFn(p) and GF(p)
MaxP == 31
\* the largest operand below which every value is tried on GF2 operations
MaxArg == 3
\* the largest exponent tried by the pow actions
MaxExp == 3
\* an uninitialised cell may hold any of 0..MaxGarbage (and the type's maximum)
MaxGarbage == 2
\* the largest argument handed to the static checkPrime and findPrime
MaxMax == 64

----------------------------------------------------------------------------
(* Program constants *)

\* #define GF2_POLY 0x11d (0x11b is the polynomial of AES)
GF2_POLY_AES == 256 + 27
GF2_POLY == 285
\* GF2::GF2 fills 256 entries and mirrors up to 512; exponents live mod 255
GF2_EXP_SIZE == 512
GF2_LOG_SIZE == 256
GF2_ORDER == 255
\* the generator of GF2::GF2 and of GF::GF
GF2_GEN == 2
GF_GEN == 16
\* widths of uint8_t, uint16_t and int
U8 == 256
U16 == 65536
INT_MAX == 2147483647

\* a table cell that was allocated and never written
Uninit == -1

----------------------------------------------------------------------------
(* Machine arithmetic *)

RECURSIVE BitXor(_, _)
BitXor(m, n) ==
    IF m = 0 THEN n
    ELSE IF n = 0 THEN m
    ELSE ((m + n) % 2) + 2 * BitXor(m \div 2, n \div 2)

\* C++ remainder, truncating towards zero (d > 0)
CRem(n, d) == IF n >= 0 THEN n % d ELSE -((-n) % d)

\* what an uninitialised or out-of-range cell of a type of width w may hold
Garbage(w) == (0..MaxGarbage) \cup {w - 1}

\* the values a read of t[k] may give
Cell(t, k, w) ==
    IF k \notin DOMAIN t THEN Garbage(w)
    ELSE IF t[k] = Uninit THEN Garbage(w)
    ELSE {t[k]}

NewTable(n) == [k \in 0..(n - 1) |-> Uninit]

\* the access t[k] of table t (called name), if k is outside the table
Outside(name, t, k) == IF k \in DOMAIN t THEN {} ELSE {<<name, k>>}

\* what the constructor's read of t[k] gives: outside the table, anything
Peek(t, k) == IF k \in DOMAIN t THEN t[k] ELSE Uninit

\* the table after the constructor's write t[k] = v (a write outside the
\* table leaves the table as it is)
Poke(t, k, v) == IF k \in DOMAIN t THEN [t EXCEPT ![k] = v] ELSE t

NoOp == [name |-> "none", a |-> 0, b |-> 0, val |-> 0, reads |-> {}]

----------------------------------------------------------------------------
(* GF2: the binary field GF(2^8) *)

RECURSIVE GF2slowMulLoop(_, _, _)
GF2slowMulLoop(ret, x_, y) ==
    IF y = 0 THEN ret
    ELSE LET ret1 == IF y % 2 = 1 THEN BitXor(ret, x_) % U8 ELSE ret
             x1 == (x_ * 2) % U16
             x2 == IF (x1 \div 256) % 2 = 1 THEN BitXor(x1, GF2_POLY) ELSE x1
         IN  GF2slowMulLoop(ret1, x2, y \div 2)

GF2slowMul(a, b) == GF2slowMulLoop(0, a, b)

GF2_New ==
    /\ pc = "start"
    /\ kind' = "GF2"
    /\ pc' = "fill"
    /\ exp' = NewTable(GF2_EXP_SIZE)
    /\ log' = NewTable(GF2_LOG_SIZE)
    /\ x' = 1
    /\ i' = 0
    /\ UNCHANGED <<p, len, gen, op, oob>>

GF2_Fill ==
    /\ pc = "fill" /\ kind = "GF2"
    /\ IF i < 256
       THEN /\ exp' = Poke(exp, i, x)
            /\ log' = Poke(log, x, i % U8)
            /\ oob' = oob \cup Outside("exp", exp, i) \cup Outside("log", log, x)
            /\ x' = GF2slowMul(x, GF2_GEN)
            /\ i' = i + 1
            /\ pc' = pc
       ELSE /\ i' = 256
            /\ pc' = "mirror"
            /\ UNCHANGED <<exp, log, x, oob>>
    /\ UNCHANGED <<kind, p, len, gen, op>>

GF2_Mirror_From256 ==
    /\ pc = "mirror" /\ kind = "GF2"
    /\ IF i < 512
       THEN /\ exp' = Poke(exp, i, Peek(exp, i - 256))
            /\ oob' = oob \cup Outside("exp", exp, i)
                          \cup Outside("exp", exp, i - 256)
            /\ i' = i + 1
            /\ pc' = pc
       ELSE /\ pc' = "ready"
            /\ UNCHANGED <<exp, i, oob>>
    /\ UNCHANGED <<kind, p, len, gen, log, x, op>>

GF2_Mirror ==
    /\ pc = "mirror" /\ kind = "GF2"
    /\ IF i < 512
       THEN /\ exp' = Poke(exp, i, Peek(exp, i - 255))
            /\ oob' = oob \cup Outside("exp", exp, i)
                          \cup Outside("exp", exp, i - 255)
            /\ i' = i + 1
            /\ pc' = pc
       ELSE /\ pc' = "ready"
            /\ UNCHANGED <<exp, i, oob>>
    /\ UNCHANGED <<kind, p, len, gen, log, x, op>>


\* one outcome of an operation: the value returned and the table cells read
R(v, rd) == [val |-> v, reads |-> rd]

GF2add(a, b) == {R(BitXor(a, b), {})}

GF2sub(a, b) == {R(BitXor(a, b), {})}

GF2mul_NoZeroCheck(a, b) ==
    UNION { UNION { { R(e, {<<"log", a>>, <<"log", b>>, <<"exp", la + lb>>})
                      : e \in Cell(exp, la + lb, U8) }
                    : lb \in IF b = a THEN {la} ELSE Cell(log, b, U8) }
            : la \in Cell(log, a, U8) }

GF2mul(a, b) ==
    IF (a = 0) \/ (b = 0) THEN {R(0, {})}
    ELSE UNION { UNION { { R(e, {<<"log", a>>, <<"log", b>>, <<"exp", la + lb>>})
                           : e \in Cell(exp, la + lb, U8) }
                         : lb \in IF b = a THEN {la} ELSE Cell(log, b, U8) }
                 : la \in Cell(log, a, U8) }

GF2div(a, b) ==
    IF b = 0 THEN {R(0, {})}
    ELSE IF a = 0 THEN {R(0, {})}
    ELSE UNION { UNION { { R(e, {<<"log", a>>, <<"log", b>>,
                                 <<"exp", (la + 255 - lb) % GF2_ORDER>>})
                           : e \in Cell(exp, (la + 255 - lb) % GF2_ORDER, U8) }
                         : lb \in IF b = a THEN {la} ELSE Cell(log, b, U8) }
                 : la \in Cell(log, a, U8) }

GF2pow_NoMod(a, e) ==
    UNION { { R(v, {<<"log", a>>, <<"exp", (e * la) % U8>>})
              : v \in Cell(exp, (e * la) % U8, U8) }
            : la \in Cell(log, a, U8) }

GF2pow(a, e) ==
    UNION { { R(v, {<<"log", a>>, <<"exp", (e * la) % GF2_ORDER>>})
              : v \in Cell(exp, (e * la) % GF2_ORDER, U8) }
            : la \in Cell(log, a, U8) }

GF2inv_OffByOne(a) ==
    UNION { { R(v, {<<"log", a>>, <<"exp", 254 - la>>})
              : v \in Cell(exp, 254 - la, U8) }
            : la \in Cell(log, a, U8) }

GF2inv(a) ==
    UNION { { R(v, {<<"log", a>>, <<"exp", 255 - la>>})
              : v \in Cell(exp, 255 - la, U8) }
            : la \in Cell(log, a, U8) }

GF2slowMulOp(a, b) == {R(GF2slowMul(a, b), {})}

\* the operands tried on the GF2 operations
GF2Args == (0..MaxArg) \cup {83, 140, 202, 255}

\* the instance is constructed and no call is in progress
Idle == pc = "ready" /\ op = NoOp

\* an instance of class k is constructed and no call is in progress
Ready(k) == Idle /\ kind = k

\* operation n, called with arguments a, b (b = 0 for a one-argument
\* operation), returns one of outcomes
Call(n, a, b, outcomes) ==
    /\ \E r \in outcomes :
         op' = [name |-> n, a |-> a, b |-> b, val |-> r.val, reads |-> r.reads]
    /\ UNCHANGED <<kind, p, pc, len, gen, exp, log, i, x, oob>>

\* the caller takes the result: the instance is ready for the next call
Return ==
    /\ pc = "ready" /\ op # NoOp
    /\ op' = NoOp
    /\ UNCHANGED <<kind, p, pc, len, gen, exp, log, i, x, oob>>

GF2_add ==
    /\ Ready("GF2")
    /\ \E a \in GF2Args, b \in GF2Args :
         Call("add", a, b, GF2add(a, b))

GF2_sub ==
    /\ Ready("GF2")
    /\ \E a \in GF2Args, b \in GF2Args :
         Call("sub", a, b, GF2sub(a, b))

GF2_mul ==
    /\ Ready("GF2")
    /\ \E a \in GF2Args, b \in GF2Args :
         Call("mul", a, b, GF2mul(a, b))

GF2_div ==
    /\ Ready("GF2")
    /\ \E a \in GF2Args, b \in GF2Args :
         Call("div", a, b, GF2div(a, b))

GF2_pow ==
    /\ Ready("GF2")
    /\ \E a \in GF2Args, b \in 0..MaxExp :
         Call("pow", a, b, GF2pow(a, b))

GF2_inv ==
    /\ Ready("GF2")
    /\ \E a \in GF2Args :
         Call("inv", a, 0, GF2inv(a))

GF2_slowMul ==
    /\ Ready("GF2")
    /\ \E a \in GF2Args, b \in GF2Args :
         Call("slowMul", a, b, GF2slowMulOp(a, b))

----------------------------------------------------------------------------
(* GFn: the prime field GF(p) of gfn.cpp *)

ToU16(n) == ((n % U16) + U16) % U16

GFnadd(a, b) == {R(((a + b) % len) % U16, {})}

GFnsub_Signed(a, b) == {R(ToU16(CRem(a - b, len)), {})}

GFnsub(a, b) ==
    IF a >= b THEN {R(((a - b) % len) % U16, {})}
    ELSE {R(ToU16(len - ((b - a) % len)), {})}

GFnmul(a, b) ==
    IF (a = 0) \/ (b = 0) THEN {R(0, {})}
    ELSE UNION { UNION { { R(e, {<<"log", a>>, <<"log", b>>,
                                 <<"exp", (la + lb) % (len - 1)>>})
                           : e \in Cell(exp, (la + lb) % (len - 1), U16) }
                         : lb \in IF b = a THEN {la} ELSE Cell(log, b, U16) }
                 : la \in Cell(log, a, U16) }

\* the index GFn::div reads exp at, from the two logarithms
GFndivIndex(la, lb) == IF la - lb >= 0 THEN la - lb ELSE (len - 1) + (la - lb)

GFndiv(a, b) ==
    IF b = 0 THEN {R(0, {})}
    ELSE IF a = 0 THEN {R(0, {})}
    ELSE UNION { UNION { { R(e, {<<"log", a>>, <<"log", b>>,
                                 <<"exp", GFndivIndex(la, lb)>>})
                           : e \in Cell(exp, GFndivIndex(la, lb), U16) }
                         : lb \in IF b = a THEN {la} ELSE Cell(log, b, U16) }
                 : la \in Cell(log, a, U16) }

\* exponent * log[x] in int; the model's exponents keep it below INT_MAX
GFnpow(a, e) ==
    UNION { { R(v, {<<"log", a>>, <<"exp", (e * la) % (len - 1)>>})
              : v \in Cell(exp, (e * la) % (len - 1), U16) }
            : la \in Cell(log, a, U16) }

GFninv(a) ==
    IF a = 0 THEN {R(0, {})}
    ELSE UNION { { R(v, {<<"log", a>>, <<"exp", (len - 1) - la>>})
                   : v \in Cell(exp, (len - 1) - la, U16) }
                 : la \in Cell(log, a, U16) }

\* a * b fits a 32-bit signed int (a, b >= 0), told without computing a * b
FitsInt(a, b) == (b = 0) \/ (a <= INT_MAX \div b)

\* (a * b) mod m for a, b < 2^16, by doubling, no intermediate above 2 * m
RECURSIVE MulMod(_, _, _)
MulMod(a, b, m) ==
    IF b = 0 THEN 0
    ELSE LET h == MulMod(a, b \div 2, m)
         IN  (2 * h + (IF b % 2 = 1 THEN a % m ELSE 0)) % m

\* what (x * y) % len gives when x * y, above INT_MAX and below 2^32, wraps in
\* two's complement to x * y - 2^32 < 0: minus ((2^32 - x * y) mod len)
WrappedRem(a, b) ==
    LET two32 == MulMod(U16 % len, U16 % len, len)
    IN  -(((two32 - MulMod(a, b, len)) + len) % len)

\* (x * y) % len in int: a product above INT_MAX overflows a signed int, which
\* is undefined; a build may wrap it in two's complement or give anything
GFnslowMul(a, b) ==
    IF (a = 0) \/ (b = 0) THEN {0}
    ELSE IF FitsInt(a, b) THEN {((a * b) % len) % U16}
    ELSE {ToU16(WrappedRem(a, b))} \cup Garbage(U16)

GFnslowMulOp(a, b) == {R(v, {}) : v \in GFnslowMul(a, b)}

RECURSIVE checkPrimeLoop(_, _)
checkPrimeLoop(n, d) ==
    IF d < (n \div 2)
    THEN IF n % d = 0 THEN -1 ELSE checkPrimeLoop(n, d + 1)
    ELSE 0

checkPrime(n) == IF n < 2 THEN -1 ELSE checkPrimeLoop(n, 2)

RECURSIVE findPrimeLoop(_)
findPrimeLoop(max) ==
    IF max > 0
    THEN IF checkPrime(max) = 0 THEN max ELSE findPrimeLoop(max - 1)
    ELSE 0

findPrime(max) ==
    IF max < 2 THEN 0
    ELSE IF max = 2 THEN 2
    ELSE findPrimeLoop(max - 1)

GFnisInitialized == IF len # 0 THEN 0 ELSE 1

GFn_New ==
    /\ pc = "start"
    /\ \E q \in 0..MaxP :
         /\ kind' = "GFn"
         /\ p' = q
         /\ IF checkPrime(q) # 0
            THEN /\ len' = 0
                 /\ pc' = "rejected"
                 /\ UNCHANGED <<gen, exp, log, i, x>>
            ELSE /\ len' = q
                 /\ gen' = findPrime(q)
                 /\ exp' = NewTable(q)
                 /\ log' = NewTable(q)
                 /\ x' = 1
                 /\ i' = 0
                 /\ pc' = "fill"
    /\ UNCHANGED <<op, oob>>

GFn_Fill ==
    /\ pc = "fill" /\ kind = "GFn"
    /\ IF i < len - 1
       THEN /\ exp' = Poke(exp, i, x)
            /\ log' = Poke(log, x, i)
            /\ oob' = oob \cup Outside("exp", exp, i) \cup Outside("log", log, x)
            /\ x' \in GFnslowMul(x, gen)
            /\ i' = i + 1
            /\ pc' = pc
       ELSE /\ exp' = Poke(exp, len - 1, x)
            /\ oob' = oob \cup Outside("exp", exp, len - 1)
            /\ pc' = "ready"
            /\ UNCHANGED <<log, x, i>>
    /\ UNCHANGED <<kind, p, len, gen, op>>

\* the operands of a prime field: its elements
Elems == 0..(len - 1)

GFn_add ==
    /\ Ready("GFn")
    /\ \E a \in Elems, b \in Elems :
         Call("add", a, b, GFnadd(a, b))

GFn_sub ==
    /\ Ready("GFn")
    /\ \E a \in Elems, b \in Elems :
         Call("sub", a, b, GFnsub(a, b))

GFn_mul ==
    /\ Ready("GFn")
    /\ \E a \in Elems, b \in Elems :
         Call("mul", a, b, GFnmul(a, b))

GFn_div ==
    /\ Ready("GFn")
    /\ \E a \in Elems, b \in Elems :
         Call("div", a, b, GFndiv(a, b))

GFn_pow ==
    /\ Ready("GFn")
    /\ \E a \in Elems, b \in 0..MaxExp :
         Call("pow", a, b, GFnpow(a, b))

GFn_inv ==
    /\ Ready("GFn")
    /\ \E a \in Elems :
         Call("inv", a, 0, GFninv(a))

GFn_slowMul ==
    /\ Ready("GFn")
    /\ \E a \in Elems, b \in Elems :
         Call("slowMul", a, b, GFnslowMulOp(a, b))

----------------------------------------------------------------------------
(* GF: the prime field GF(p) of gf.h *)

GFadd(a, b) == {R(((a + b) % len) % U16, {})}

GFsub(a, b) ==
    IF a >= b THEN {R(((a - b) % len) % U16, {})}
    ELSE {R(ToU16(len + CRem(a - b, len)), {})}

GFmul(a, b) ==
    IF (a = 0) \/ (b = 0) THEN {R(0, {})}
    ELSE UNION { UNION { { R(e, {<<"log", a>>, <<"log", b>>, <<"exp", la + lb>>})
                           : e \in Cell(exp, la + lb, U16) }
                         : lb \in IF b = a THEN {la} ELSE Cell(log, b, U16) }
                 : la \in Cell(log, a, U16) }

RECURSIVE GFdivLoop(_, _, _)
GFdivLoop(acc, k, divisor) ==
    IF k < divisor
    THEN IF (acc + len) % divisor = 0
         THEN ((acc + len) \div divisor) % len
         ELSE GFdivLoop(acc + len, k + 1, divisor)
    ELSE 0

GFdiv(dividend, divisor) ==
    IF divisor = 0 THEN {R(0, {})}
    ELSE IF dividend = 0 THEN {R(0, {})}
    ELSE IF dividend % divisor = 0
         THEN {R((dividend \div divisor) % len, {})}
         ELSE {R(GFdivLoop(dividend, 1, divisor), {})}

GFpow(a, e) ==
    UNION { { R(v, {<<"log", a>>, <<"exp", (e * la) % (len - 1)>>})
              : v \in Cell(exp, (e * la) % (len - 1), U16) }
            : la \in Cell(log, a, U16) }

GFinv(a) ==
    UNION { { R(v, {<<"log", a>>, <<"exp", (len - 1) - la>>})
              : v \in Cell(exp, (len - 1) - la, U16) }
            : la \in Cell(log, a, U16) }

GFslowMul(a, b) ==
    IF (a = 0) \/ (b = 0) THEN 0 ELSE ((a * b) % len) % U16

GFslowMulOp(a, b) == {R(GFslowMul(a, b), {})}

\* GF::GF does not test its argument ("must be prime"): callers pass a prime
IsPrime(n) == n >= 2 /\ \A d \in 2..(n - 1) : n % d # 0

GF_New ==
    /\ pc = "start"
    /\ \E q \in {n \in 2..MaxP : IsPrime(n)} :
         /\ kind' = "GF"
         /\ p' = q
         /\ len' = q
         /\ exp' = NewTable(2 * q)
         /\ log' = NewTable(q)
         /\ x' = 1
         /\ i' = 0
         /\ pc' = "fill"
    /\ UNCHANGED <<gen, op, oob>>

GF_Fill ==
    /\ pc = "fill" /\ kind = "GF"
    /\ IF i < len
       THEN /\ exp' = Poke(exp, i, x)
            /\ log' = Poke(log, x, i)
            /\ oob' = oob \cup Outside("exp", exp, i) \cup Outside("log", log, x)
            /\ x' = GFslowMul(x, GF_GEN)
            /\ i' = i + 1
            /\ pc' = pc
       ELSE /\ i' = len
            /\ pc' = "mirror"
            /\ UNCHANGED <<exp, log, x, oob>>
    /\ UNCHANGED <<kind, p, len, gen, op>>

\* exp[i] = exp[i - len - 1]: at i = len the index is -1, outside the table;
\* what is read there is indeterminate, and so is the cell it is copied to
GF_Mirror ==
    /\ pc = "mirror" /\ kind = "GF"
    /\ IF i < 2 * len
       THEN /\ exp' = Poke(exp, i, Peek(exp, i - len - 1))
            /\ oob' = oob \cup Outside("exp", exp, i)
                          \cup Outside("exp", exp, i - len - 1)
            /\ i' = i + 1
            /\ pc' = pc
       ELSE /\ pc' = "ready"
            /\ UNCHANGED <<exp, i, oob>>
    /\ UNCHANGED <<kind, p, len, gen, log, x, op>>

GF_add ==
    /\ Ready("GF")
    /\ \E a \in Elems, b \in Elems :
         Call("add", a, b, GFadd(a, b))

GF_sub ==
    /\ Ready("GF")
    /\ \E a \in Elems, b \in Elems :
         Call("sub", a, b, GFsub(a, b))

GF_mul ==
    /\ Ready("GF")
    /\ \E a \in Elems, b \in Elems :
         Call("mul", a, b, GFmul(a, b))

GF_div ==
    /\ Ready("GF")
    /\ \E a \in Elems, b \in Elems :
         Call("div", a, b, GFdiv(a, b))

GF_pow ==
    /\ Ready("GF")
    /\ \E a \in Elems, b \in 0..MaxExp :
         Call("pow", a, b, GFpow(a, b))

GF_inv ==
    /\ Ready("GF")
    /\ \E a \in Elems :
         Call("inv", a, 0, GFinv(a))

GF_slowMul ==
    /\ Ready("GF")
    /\ \E a \in Elems, b \in Elems :
         Call("slowMul", a, b, GFslowMulOp(a, b))

----------------------------------------------------------------------------
Init ==
    /\ kind = "none"
    /\ p = 0
    /\ pc = "start"
    /\ len = 0
    /\ gen = 0
    /\ exp = <<>>
    /\ log = <<>>
    /\ i = 0
    /\ x = 0
    /\ op = NoOp
    /\ oob = {}

Next ==
    \/ GF2_New
    \/ GF2_Fill
    \/ GF2_Mirror
    \/ GF2_add \/ GF2_sub \/ GF2_mul \/ GF2_div
    \/ GF2_pow \/ GF2_inv \/ GF2_slowMul
    \/ GFn_New
    \/ GFn_Fill
    \/ GFn_add \/ GFn_sub \/ GFn_mul \/ GFn_div
    \/ GFn_pow \/ GFn_inv \/ GFn_slowMul
    \/ GF_New
    \/ GF_Fill
    \/ GF_Mirror
    \/ GF_add \/ GF_sub \/ GF_mul \/ GF_div
    \/ GF_pow \/ GF_inv \/ GF_slowMul
    \/ Return

Spec == Init /\ [][Next]_vars

----------------------------------------------------------------------------
(* slowMul of GFn on large characteristics.  The tables of a field this    *)
(* large are left out of the state: slowMul reads len and nothing else.    *)

\* 16-bit primes around the point where (len - 1)^2 passes INT_MAX
BigPrimes == {2, 7, 251, 46337, 46349, 65521}

\* operands at the edges of the field
EdgeArgs == {0, 1, 2, len \div 2, len - 2, len - 1} \cap Elems

InitSlowMul ==
    /\ kind = "GFn"
    /\ p \in {q \in BigPrimes : IsPrime(q)}
    /\ pc = "ready"
    /\ len = p
    /\ gen = 0
    /\ exp = <<>>
    /\ log = <<>>
    /\ i = 0
    /\ x = 0
    /\ op = NoOp
    /\ oob = {}

BigSlowMul ==
    /\ Ready("GFn")
    /\ \E a \in EdgeArgs, b \in EdgeArgs :
         Call("slowMul", a, b, GFnslowMulOp(a, b))

NextSlowMul ==
    \/ BigSlowMul
    \/ Return

SpecSlowMul == InitSlowMul /\ [][NextSlowMul]_vars

----------------------------------------------------------------------------
(* The static functions checkPrime and findPrime, called without an        *)
(* instance.                                                               *)

Static_checkPrime ==
    /\ pc = "start" /\ op = NoOp
    /\ \E n \in 0..MaxMax :
         Call("checkPrime", n, 0, {R(checkPrime(n), {})})

Static_findPrime ==
    /\ pc = "start" /\ op = NoOp
    /\ \E max \in 0..MaxMax :
         Call("findPrime", max, 0, {R(findPrime(max), {})})

\* the caller takes the result of a static function
Static_Return ==
    /\ pc = "start" /\ op # NoOp
    /\ op' = NoOp
    /\ UNCHANGED <<kind, p, pc, len, gen, exp, log, i, x, oob>>

NextPrime ==
    \/ Static_checkPrime
    \/ Static_findPrime
    \/ Static_Return

SpecPrime == Init /\ [][NextPrime]_vars

----------------------------------------------------------------------------
(* The claims *)

\* C1: after GFn(p), p in 0..MaxP, the instance is initialized (len = p,
\* isInitialized() = 0) if and only if p is prime; for a non-prime p len stays
\* 0, isInitialized() is nonzero and no table is built.
C1_RejectsNonPrimes ==
    (kind = "GFn" /\ pc # "start") =>
        /\ (len = p /\ GFnisInitialized = 0) <=> IsPrime(p)
        /\ ~IsPrime(p) =>
             (len = 0 /\ GFnisInitialized # 0 /\ exp = <<>> /\ log = <<>>)

\* C2: after GFn(p) for a prime p, log[exp[e]] = e for every exponent e in
\* 0..p-2 and exp[log[v]] = v for every nonzero element v (every such log[v]
\* was written).
C2_TableBijection ==
    (Idle /\ kind = "GFn" /\ IsPrime(p)) =>
        /\ \A e \in 0..(p - 2) : log[exp[e]] = e
        /\ \A v \in 1..(p - 1) : log[v] # Uninit /\ exp[log[v]] = v

\* C3: in GFn(p) for a prime p, mul(x, inv(x)) = 1 for every nonzero x.
C3_MulInvIsOne ==
    (Idle /\ kind = "GFn" /\ IsPrime(p)) =>
        \A a \in 1..(p - 1) :
            \A r \in GFninv(a) : \A m \in GFnmul(a, r.val) : m.val = 1

\* C4: in GF2, for all nonzero x, y in 1..255, mul(x, inv(x)) = 1 and
\* div(mul(x, y), y) = x.
C4_GF2Group ==
    (Idle /\ kind = "GF2") =>
        \A a \in 1..255 :
            /\ \A r \in GF2inv(a) : \A m \in GF2mul(a, r.val) : m.val = 1
            /\ \A b \in 1..255 :
                 \A m \in GF2mul(a, b) : \A d \in GF2div(m.val, b) : d.val = a

\* the logarithm of 1 is the last one the fill loop of GF2 wrote, and inv(1),
\* which reads it, returned 1
C4_Witness ==
    /\ kind = "GF2" /\ pc = "ready" /\ log[1] = 255
    /\ op.name = "inv" /\ op.a = 1 /\ op.val = 1

\* C5: in GF2 and in GFn, pow(0, e) returns 0 and inv(0) returns 0, and
\* neither call reads log[0].
C5_ZeroSpecialCased ==
    (pc = "ready" /\ kind \in {"GF2", "GFn"}
        /\ op.name \in {"pow", "inv"} /\ op.a = 0) =>
        (op.val = 0 /\ <<"log", 0>> \notin op.reads)

\* the elements of the constructed field
Field == IF kind = "GF2" THEN 0..255 ELSE Elems

\* mul and div of the constructed instance's class
MulOf(a, b) ==
    IF kind = "GF2" THEN GF2mul(a, b)
    ELSE IF kind = "GFn" THEN GFnmul(a, b) ELSE GFmul(a, b)

DivOf(a, b) ==
    IF kind = "GF2" THEN GF2div(a, b)
    ELSE IF kind = "GFn" THEN GFndiv(a, b) ELSE GFdiv(a, b)

\* C6: in GF2, GFn and GF, for all elements x, y: mul(0, y), mul(x, 0),
\* div(x, 0) and div(0, y) return 0, and return it without reading a table.
C6_ZeroAbsorption ==
    Idle =>
        \A a \in Field :
            /\ MulOf(0, a) = {R(0, {})}
            /\ MulOf(a, 0) = {R(0, {})}
            /\ DivOf(a, 0) = {R(0, {})}
            /\ DivOf(0, a) = {R(0, {})}

\* a division by zero of a nonzero element of a prime field has returned 0
C6_Witness ==
    /\ kind = "GFn" /\ pc = "ready" /\ len = 7
    /\ op.name = "div" /\ op.a = 3 /\ op.b = 0 /\ op.val = 0 /\ op.reads = {}

\* C7 as stated: GF2::mul(0x53, 0xCA) = 0x01.
C7_TestVector ==
    (kind = "GF2" /\ pc = "ready"
        /\ op.name = "mul" /\ op.a = 83 /\ op.b = 202) => op.val = 1

\* C7 as amended: with polynomial 0x11D and generator 2, mul(0x53, 0xCA) and
\* slowMul(0x53, 0xCA) are 0x8F, and the inverse of 0x53 is 0x8C:
\* mul(0x53, 0x8C) = 0x01.
C7_TestVector11D ==
    (kind = "GF2" /\ pc = "ready" /\ op.a = 83) =>
        /\ (op.name \in {"mul", "slowMul"} /\ op.b = 202) => op.val = 143
        /\ (op.name \in {"mul", "slowMul"} /\ op.b = 140) => op.val = 1

C7_Witness ==
    /\ kind = "GF2" /\ pc = "ready"
    /\ op.name = "mul" /\ op.a = 83 /\ op.b = 202 /\ op.val = 143

\* C8: for every 16-bit prime len and all x, y below it, the product x * y of
\* GFn::slowMul stays within a 32-bit signed int and slowMul returns
\* (x * y) mod len.
C8_SlowMulNoOverflow ==
    (kind = "GFn" /\ pc = "ready" /\ op.name = "slowMul") =>
        (FitsInt(op.a, op.b) /\ op.val = MulMod(op.a, op.b, len))

\* C9: in GFn, for all x, y in 0..len-1, sub(x, y) lies in 0..len-1 and is
\* (x - y) mod len; add(sub(x, y), y) = x, sub(x, x) = 0 and
\* add(x, sub(0, x)) = 0.
C9_AddSub ==
    (Idle /\ kind = "GFn") =>
        \A a \in Elems :
            /\ GFnsub(a, a) = {R(0, {})}
            /\ \A n \in GFnsub(0, a) : \A s \in GFnadd(a, n.val) : s.val = 0
            /\ \A b \in Elems :
                 \A d \in GFnsub(a, b) :
                    /\ d.val \in 0..(len - 1)
                    /\ d.val = ((a - b) + len) % len
                    /\ \A s \in GFnadd(d.val, b) : s.val = a

\* sub(2, 5) = 4 was computed in the field of characteristic 7
C9_Witness ==
    /\ kind = "GFn" /\ pc = "ready" /\ len = 7
    /\ op.name = "sub" /\ op.a = 2 /\ op.b = 5 /\ op.val = 4

\* C10: in GF2, for every nonzero x and every exponent e in 0..255, pow(x, e)
\* is the e-fold slowMul product of x with itself: pow(x, 0) = 1 (the empty
\* product) and pow(x, e) = slowMul(pow(x, e - 1), x) for e in 1..255, which
\* fixes pow(x, e) as that product for every e by induction; in particular
\* pow(x, 1) = x.
C10_GF2Pow ==
    (Idle /\ kind = "GF2") =>
        \A a \in 1..255 :
            /\ GF2pow(a, 0) = {R(1, {<<"log", a>>, <<"exp", 0>>})}
            /\ \A r \in GF2pow(a, 1) : r.val = a
            /\ \A e \in 1..255 :
                 \A r \in GF2pow(a, e) : \A q \in GF2pow(a, e - 1) :
                    r.val = GF2slowMul(q.val, a)

\* pow(1, 1), which reads log[1] = 255, returned 1
C10_Witness ==
    /\ kind = "GF2" /\ pc = "ready" /\ log[1] = 255
    /\ op.name = "pow" /\ op.a = 1 /\ op.b = 1 /\ op.val = 1

\* the largest prime strictly below max (max >= 3)
LargestPrimeBelow(max) ==
    CHOOSE q \in 2..(max - 1) :
        IsPrime(q) /\ \A r \in (q + 1)..(max - 1) : ~IsPrime(r)

\* C11: findPrime(max) returns 0 for max < 2, 2 for max = 2 and, for every
\* max in 3..MaxMax, the largest prime strictly below max.
C11_FindPrime ==
    (pc = "start" /\ op.name = "findPrime") =>
        op.val = IF op.a < 2 THEN 0
                 ELSE IF op.a = 2 THEN 2
                 ELSE LargestPrimeBelow(op.a)

\* C12: in GF2 and in GFn(p) for a prime p, the first iteration of the fill
\* loop sets log[1] = 0 and log[1] is not written again: from the end of that
\* iteration on, through the rest of the construction and after it,
\* log[1] = 0 (a later write in the fill loop would store an exponent i >= 1).
C12_LogOfOne ==
    (/\ kind \in {"GF2", "GFn"}
     /\ kind = "GFn" => IsPrime(p)
     /\ pc \in {"fill", "mirror", "ready"}
     /\ pc = "fill" => i >= 1) => log[1] = 0

\* C13: in GF2, for all x, y in 0..255, mul(x, y) = slowMul(x, y); the index
\* log[x] + log[y] at which mul reads exp lies in 0..510, and the upper half
\* of exp repeats the lower: exp[k] = exp[k mod 255] for k in 255..510.  In
\* particular mul(0x02, 0x03) = 0x06.
C13_MulIsSlowMul ==
    (Idle /\ kind = "GF2") =>
        /\ \A a \in 0..255, b \in 0..255 :
             \A m \in GF2mul(a, b) :
                /\ m.val = GF2slowMul(a, b)
                /\ \A rd \in m.reads : rd[1] = "exp" => rd[2] \in 0..510
        /\ \A k \in 255..510 : exp[k] = exp[k % 255]
        /\ \A m \in GF2mul(2, 3) : m.val = 6

\* mul(1, 1) has read the mirrored half of exp at its last index, 510
C13_Witness ==
    /\ kind = "GF2" /\ pc = "ready"
    /\ op.name = "mul" /\ op.a = 1 /\ op.b = 1 /\ op.val = 1
    /\ <<"exp", 510>> \in op.reads

\* C14: construction stays inside its tables: in the constructor of every
\* variant (GF2, GFn(p) for accepted p, GF(p)) every index used to read or
\* write exp or log during the fill loop and the mirror loop is >= 0 and
\* below the allocated length of that table.
C14_InBounds ==
    (kind \in {"GF2", "GFn", "GF"} /\ pc \in {"fill", "mirror", "ready"}) =>
        oob = {}
====
